---- MODULE Spec2Model ----
(***************************************************************************)
(* metalab-spaceapi: the SpaceAPI v14/v15 endpoint of main.go.             *)
(*                                                                         *)
(* One process-wide document, spaceApiData, is shared by every request.    *)
(* handleSpaceApiV15 fetches the lab state from the upstream status        *)
(* source, stores it into spaceApiData.State.Open and serialises the       *)
(* whole document.  net/http runs every request in its own goroutine, so   *)
(* the handler is modelled as a sequence of steps per request which        *)
(* interleave with the steps of the other requests.                        *)
(*                                                                         *)
(* Go values are represented as follows.                                   *)
(*   pointer   Nil is <<>>, Pointer(d) is <<d>>                            *)
(*   error     Nil, or <<text>> with text the result of Error()            *)
(*   slice     a sequence (a nil slice is <<>>)                            *)
(*   float64   an integer count of 1e-7 units (only Lat and Lon are set)   *)
(*   JSON      a tagged record, see JStr .. JObj                           *)
(***************************************************************************)
EXTENDS Integers, Sequences, FiniteSets, TLC

\* Number of connections net/http serves at the same time.
NReq == 2

Req == 1..NReq

VARIABLES spaceApiData, pc, request, upstream, locals, response

vars == <<spaceApiData, pc, request, upstream, locals, response>>

----------------------------------------------------------------------------
(* Pointers *)

Nil == <<>>

Pointer(d) == <<d>>

Deref(p) == p[1]

----------------------------------------------------------------------------
(* The document template, main.go:11-45.  Every field of every struct the  *)
(* template instantiates is listed; the fields the literal leaves out hold *)
(* their zero value.  The address is written in ASCII (ss for the sharp s). *)

LocationInit ==
    [Address |-> "Verein Metalab, Rathausstrasse 6, 1010 Wien, Austria",
     Lat |-> 482093723,
     Lon |-> 163560990,
     Timezone |-> "Europe/Vienna",
     CountryCode |-> "AT",
     Hint |-> "",
     Areas |-> <<>>]

SpaceFedInit == [SpaceNet |-> FALSE, SpaceSAML |-> FALSE]

StateInit ==
    [Open |-> Nil,
     LastChange |-> 0,
     TriggerPerson |-> "",
     Message |-> "",
     Icon |-> Nil]

ContactInit ==
    [Phone |-> "+43 720 002323",
     SIP |-> "6382",
     Keymasters |-> <<>>,
     IRC |-> "",
     Twitter |-> "",
     Mastodon |-> "@metalab@chaos.social",
     Facebook |-> "",
     Identica |-> "",
     Foursquare |-> "",
     Email |-> "",
     ML |-> "",
     XMPP |-> "",
     IssueMail |-> "",
     Gopher |-> "",
     Matrix |-> "",
     Mumble |-> ""]

LinksInit ==
    << [Name |-> "Metalab Wiki", Description |-> "", URL |-> "https://metalab.at/wiki"] >>

ProjectsInit ==
    << "https://github.com/metalab", "https://metalab.at/wiki/Projekte_Neu" >>

spaceApiDataInit ==
    [APICompatibility |-> << "14", "15" >>,
     Space |-> "Metalab",
     Logo |-> "https://metalab.at/wiki/images/9/93/Metalab.at.svg",
     URL |-> "https://metalab.at",
     Location |-> Pointer(LocationInit),
     SpaceFed |-> Pointer(SpaceFedInit),
     Cam |-> <<>>,
     State |-> Pointer(StateInit),
     Events |-> <<>>,
     Contact |-> Pointer(ContactInit),
     Sensors |-> Nil,
     Feeds |-> Nil,
     Links |-> LinksInit,
     Cache |-> Nil,
     Projects |-> ProjectsInit,
     RadioShow |-> Nil]

----------------------------------------------------------------------------
(* encoding/json as the struct tags of main.go:142-354 drive it.  A JSON   *)
(* object is the sequence of its members <<key, value>> in struct field    *)
(* order, which is the order json.Marshal writes them in.                  *)

JNull == [t |-> "null"]

JBool(b) == [t |-> "bool", b |-> b]

JNum(n) == [t |-> "num", n |-> n]

JStr(s) == [t |-> "str", s |-> s]

JArr(a) == [t |-> "arr", a |-> a]

JObj(m) == [t |-> "obj", m |-> m]

\* A struct field without omitempty: always written.
Field(key, value) == << <<key, value>> >>

\* Mutant of OmitEmpty: the omitempty option is ignored.
OmitEmptyIgnored(key, empty, value) == << <<key, value>> >>

\* A struct field tagged omitempty: left out when the Go value is empty
\* (false, 0, "", a nil pointer, a slice of length 0).
OmitEmpty(key, empty, value) == IF empty THEN <<>> ELSE << <<key, value>> >>

\* A string field tagged omitempty.
StrOmitEmpty(key, s) == OmitEmpty(key, s = "", JStr(s))

\* A []string: null when nil, else the array of its elements in order.
MarshalStrings(a) ==
    IF a = <<>> THEN JNull ELSE JArr([i \in 1..Len(a) |-> JStr(a[i])])

\* Pointer fields and slices of the struct types the template leaves nil are
\* written as null when they are not omitted.
MarshalNil == JNull

MarshalLocation(l) ==
    JObj(StrOmitEmpty("address", l.Address)
         \o OmitEmpty("lat", l.Lat = 0, JNum(l.Lat))
         \o OmitEmpty("lon", l.Lon = 0, JNum(l.Lon))
         \o StrOmitEmpty("timezone", l.Timezone)
         \o StrOmitEmpty("country_code", l.CountryCode)
         \o StrOmitEmpty("hint", l.Hint)
         \o OmitEmpty("areas", l.Areas = <<>>, MarshalNil))

MarshalSpaceFed(f) ==
    JObj(Field("spacenet", JBool(f.SpaceNet))
         \o Field("spacesaml", JBool(f.SpaceSAML)))

MarshalState(s) ==
    JObj(Field("open", IF s.Open = Nil THEN JNull ELSE JBool(Deref(s.Open)))
         \o OmitEmpty("lastchange", s.LastChange = 0, JNum(s.LastChange))
         \o StrOmitEmpty("trigger_person", s.TriggerPerson)
         \o StrOmitEmpty("message", s.Message)
         \o OmitEmpty("icon", s.Icon = Nil, MarshalNil))

MarshalContact(c) ==
    JObj(StrOmitEmpty("phone", c.Phone)
         \o StrOmitEmpty("sip", c.SIP)
         \o OmitEmpty("keymasters", c.Keymasters = <<>>, MarshalNil)
         \o StrOmitEmpty("irc", c.IRC)
         \o StrOmitEmpty("twitter", c.Twitter)
         \o StrOmitEmpty("mastodon", c.Mastodon)
         \o StrOmitEmpty("facebook", c.Facebook)
         \o StrOmitEmpty("identica", c.Identica)
         \o StrOmitEmpty("foursquare", c.Foursquare)
         \o StrOmitEmpty("email", c.Email)
         \o StrOmitEmpty("ml", c.ML)
         \o StrOmitEmpty("xmpp", c.XMPP)
         \o StrOmitEmpty("issue_mail", c.IssueMail)
         \o StrOmitEmpty("gopher", c.Gopher)
         \o StrOmitEmpty("matrix", c.Matrix)
         \o StrOmitEmpty("mumble", c.Mumble))

MarshalLink(l) ==
    JObj(Field("name", JStr(l.Name))
         \o StrOmitEmpty("description", l.Description)
         \o Field("url", JStr(l.URL)))

MarshalLinks(a) == JArr([i \in 1..Len(a) |-> MarshalLink(a[i])])

\* json.Marshal(spaceApiData), main.go:68.
Marshal(d) ==
    JObj(Field("api_compatibility", MarshalStrings(d.APICompatibility))
         \o Field("space", JStr(d.Space))
         \o StrOmitEmpty("logo", d.Logo)
         \o StrOmitEmpty("url", d.URL)
         \o OmitEmpty("location", d.Location = Nil, MarshalLocation(Deref(d.Location)))
         \o OmitEmpty("spacefed", d.SpaceFed = Nil, MarshalSpaceFed(Deref(d.SpaceFed)))
         \o OmitEmpty("cam", d.Cam = <<>>, MarshalStrings(d.Cam))
         \o OmitEmpty("state", d.State = Nil, MarshalState(Deref(d.State)))
         \o OmitEmpty("events", d.Events = <<>>, MarshalNil)
         \o OmitEmpty("contact", d.Contact = Nil, MarshalContact(Deref(d.Contact)))
         \o OmitEmpty("sensors", d.Sensors = Nil, MarshalNil)
         \o OmitEmpty("feeds", d.Feeds = Nil, MarshalNil)
         \o OmitEmpty("links", d.Links = <<>>, MarshalLinks(d.Links))
         \o OmitEmpty("cache", d.Cache = Nil, MarshalNil)
         \o OmitEmpty("projects", d.Projects = <<>>, MarshalStrings(d.Projects))
         \o OmitEmpty("radio_show", d.RadioShow = Nil, MarshalNil))

----------------------------------------------------------------------------
(* The upstream status source, seen from fetchLabState, main.go:75-129.    *)
(* One upstream behaviour is what the source does for one fetch: client.Do *)
(* fails, or reading the body fails, or a body arrives.  A body is either  *)
(* not JSON at all or a JSON object, given as its members <<key, value>>.  *)

LabStatusURL == "https://eingang.metalab.at/status.json"

\* The methods http.NewRequest accepts (the ones the model uses).
ValidMethods == {"GET", "POST"}

\* http.NewRequest(method, url, nil): the error it returns.
NewRequest(method, url) ==
    IF method \notin ValidMethods
    THEN <<"net/http: invalid method " \o method>>
    ELSE IF url = "" THEN <<"parse: empty url">> ELSE Nil

NotJSON == [valid |-> FALSE, members |-> <<>>]

JSONBody(members) == [valid |-> TRUE, members |-> members]

StatusBody(v) == JSONBody(<< <<"status", v>> >>)

Bodies ==
    {StatusBody(JStr("open")),
     StatusBody(JStr("closed")),
     StatusBody(JStr("maybe")),
     StatusBody(JStr("")),
     StatusBody(JNum(1)),
     NotJSON}

DoFailure == [doErr |-> <<"dial tcp: connection refused">>, readErr |-> Nil, body |-> NotJSON]

ReadFailure == [doErr |-> Nil, readErr |-> <<"unexpected EOF">>, body |-> NotJSON]

Delivered(b) == [doErr |-> Nil, readErr |-> Nil, body |-> b]

Upstreams == {DoFailure, ReadFailure} \cup {Delivered(b) : b \in Bodies}

\* No fetch has been made.
NoUpstream == [doErr |-> Nil, readErr |-> Nil, body |-> JSONBody(<<>>)]

\* client.Do(req): the transport's error comes back wrapped in a *url.Error.
Do(url, u) ==
    IF u.doErr = Nil THEN Nil
    ELSE <<"Get \"" \o url \o "\": " \o Deref(u.doErr)>>

\* io.ReadAll(resp.Body)
ReadAll(u) == u.readErr

\* json.Unmarshal(body, &r) for r of type LabStatus (main.go:114-119), its
\* error dropped as the caller drops it.  A body that is not valid JSON leaves
\* r alone; in an object each member named "status" that holds a string is
\* stored into r.Status and every other member is skipped.  (encoding/json
\* also accepts the key in another letter case; the bodies of the model use
\* the lower-case key only.)
RECURSIVE UnmarshalMembers(_, _)
UnmarshalMembers(members, r) ==
    IF members = <<>> THEN r
    ELSE LET m == Head(members)
             next == IF m[1] = "status" /\ m[2].t = "str"
                     THEN [r EXCEPT !.Status = m[2].s]
                     ELSE r
         IN UnmarshalMembers(Tail(members), next)

Unmarshal(body, r) ==
    IF body.valid THEN UnmarshalMembers(body.members, r) ELSE r

\* The results of fetchLabState: (*bool, *int64, error).
Results(labState, labStateLastChange, labStateError) ==
    [labState |-> labState,
     labStateLastChange |-> labStateLastChange,
     labStateError |-> labStateError]

NoResults == Results(Nil, Nil, Nil)

\* Mutant of fetchLabState: the two literals are mapped the wrong way round.
fetchLabStateSwapped(u) ==
    LET doErr == Do(LabStatusURL, u)
        readErr == ReadAll(u)
        r == Unmarshal(u.body, [Status |-> ""])
    IN IF doErr # Nil THEN Results(Nil, Nil, doErr)
       ELSE IF readErr # Nil THEN Results(Nil, Nil, readErr)
       ELSE IF r.Status = "open" THEN Results(Pointer(FALSE), Nil, Nil)
       ELSE IF r.Status = "closed" THEN Results(Pointer(TRUE), Nil, Nil)
       ELSE Results(Nil, Nil, <<"unknown state: " \o r.Status>>)

\* Mutant of fetchLabState: whatever is not "open" counts as closed.
fetchLabStateDefaultClosed(u) ==
    LET doErr == Do(LabStatusURL, u)
        readErr == ReadAll(u)
        r == Unmarshal(u.body, [Status |-> ""])
    IN IF doErr # Nil THEN Results(Nil, Nil, doErr)
       ELSE IF readErr # Nil THEN Results(Nil, Nil, readErr)
       ELSE IF r.Status = "open" THEN Results(Pointer(TRUE), Nil, Nil)
       ELSE Results(Pointer(FALSE), Nil, Nil)

\* Mutant of fetchLabState: the unknown literal is reported without an error.
fetchLabStateNoError(u) ==
    LET doErr == Do(LabStatusURL, u)
        readErr == ReadAll(u)
        r == Unmarshal(u.body, [Status |-> ""])
    IN IF doErr # Nil THEN Results(Nil, Nil, doErr)
       ELSE IF readErr # Nil THEN Results(Nil, Nil, readErr)
       ELSE IF r.Status = "open" THEN Results(Pointer(TRUE), Nil, Nil)
       ELSE IF r.Status = "closed" THEN Results(Pointer(FALSE), Nil, Nil)
       ELSE Results(Nil, Nil, Nil)

fetchLabState(u) ==
    LET buildErr == NewRequest("GET", LabStatusURL)
        doErr == Do(LabStatusURL, u)
        readErr == ReadAll(u)
        r == Unmarshal(u.body, [Status |-> ""])
    IN IF buildErr # Nil THEN Results(Nil, Nil, buildErr)
       ELSE IF doErr # Nil THEN Results(Nil, Nil, doErr)
       ELSE IF readErr # Nil THEN Results(Nil, Nil, readErr)
       ELSE IF r.Status = "open" THEN Results(Pointer(TRUE), Nil, Nil)
       ELSE IF r.Status = "closed" THEN Results(Pointer(FALSE), Nil, Nil)
       ELSE Results(Nil, Nil, <<"unknown state: " \o r.Status>>)

----------------------------------------------------------------------------
(* HTTP responses *)

Text(s) == [t |-> "text", s |-> s]

NoResponse == [Code |-> 0, ContentType |-> "", AllowOrigin |-> "", Body |-> Text("")]

StatusOK == 200

StatusNotFound == 404

StatusInternalServerError == 500

\* http.Error(w, error, code)
HttpError(error, code) ==
    [Code |-> code,
     ContentType |-> "text/plain; charset=utf-8",
     AllowOrigin |-> "",
     Body |-> Text(error \o "\n")]

\* w.Header().Set(...) twice and w.Write(p), main.go:70-72; the first Write
\* sends status 200.
WriteJSON(p) ==
    [Code |-> StatusOK,
     ContentType |-> "application/json",
     AllowOrigin |-> "*",
     Body |-> p]

----------------------------------------------------------------------------
(* The server, main.go:131-139, and the handler, main.go:57-73.            *)

Methods == {"GET", "POST"}

\* The patterns main registers; both name handleSpaceApiV15 and neither
\* names a method.
Routes == {"/v14", "/v15"}

Paths == Routes \cup {"/"}

NoRequest == [Method |-> "", Path |-> ""]

InFlight(r) == pc[r] \in {"handler", "fetched", "stored"}

Init ==
    /\ spaceApiData = spaceApiDataInit
    /\ pc = [r \in Req |-> "idle"]
    /\ request = [r \in Req |-> NoRequest]
    /\ upstream = [r \in Req |-> NoUpstream]
    /\ locals = [r \in Req |-> NoResults]
    /\ response = [r \in Req |-> NoResponse]

\* A request arrives for a registered pattern: the mux calls the handler in
\* the connection's goroutine, whatever the method.
Serve(r) ==
    /\ pc[r] = "idle"
    /\ \E m \in Methods, p \in Routes :
          request' = [request EXCEPT ![r] = [Method |-> m, Path |-> p]]
    /\ pc' = [pc EXCEPT ![r] = "handler"]
    /\ UNCHANGED <<spaceApiData, upstream, locals, response>>

\* A request arrives for any other path: the mux answers 404 itself.
NotFound(r) ==
    /\ pc[r] = "idle"
    /\ \E m \in Methods, p \in Paths \ Routes :
          request' = [request EXCEPT ![r] = [Method |-> m, Path |-> p]]
    /\ response' = [response EXCEPT ![r] = HttpError("404 page not found", StatusNotFound)]
    /\ pc' = [pc EXCEPT ![r] = "done"]
    /\ UNCHANGED <<spaceApiData, upstream, locals>>

\* main.go:58: labState, labStateLastChange, labStateError := fetchLabState()
HandlerFetch(r) ==
    /\ pc[r] = "handler"
    /\ \E u \in Upstreams :
          /\ upstream' = [upstream EXCEPT ![r] = u]
          /\ locals' = [locals EXCEPT ![r] = fetchLabState(u)]
    /\ pc' = [pc EXCEPT ![r] = "fetched"]
    /\ UNCHANGED <<spaceApiData, request, response>>

\* Mutant of HandlerError: when the fetch fails and the shared document holds
\* a state from an earlier request, that stale document is sent.
HandlerErrorStale(r) ==
    /\ pc[r] = "fetched"
    /\ locals[r].labStateError # Nil
    /\ response' = [response EXCEPT ![r] =
                       IF Deref(spaceApiData.State).Open # Nil
                       THEN WriteJSON(Marshal(spaceApiData))
                       ELSE HttpError(Deref(locals[r].labStateError),
                                      StatusInternalServerError)]
    /\ pc' = [pc EXCEPT ![r] = "done"]
    /\ UNCHANGED <<spaceApiData, request, upstream, locals>>

\* Mutant of HandlerError: the state is stored before the error is looked at,
\* so a failed fetch resets State.Open to nil.
HandlerErrorClears(r) ==
    /\ pc[r] = "fetched"
    /\ locals[r].labStateError # Nil
    /\ spaceApiData' = [spaceApiData EXCEPT !.State[1].Open = locals[r].labState]
    /\ response' = [response EXCEPT ![r] =
                       HttpError(Deref(locals[r].labStateError), StatusInternalServerError)]
    /\ pc' = [pc EXCEPT ![r] = "done"]
    /\ UNCHANGED <<request, upstream, locals>>

\* main.go:59-61: the error branch.
HandlerError(r) ==
    /\ pc[r] = "fetched"
    /\ locals[r].labStateError # Nil
    /\ response' = [response EXCEPT ![r] =
                       HttpError(Deref(locals[r].labStateError), StatusInternalServerError)]
    /\ pc' = [pc EXCEPT ![r] = "done"]
    /\ UNCHANGED <<spaceApiData, request, upstream, locals>>

\* Mutant of StoreState: the store also records a message in the state block.
StoreStateWithMessage(d, labState, labStateLastChange) ==
    [d EXCEPT !.State[1].Open = labState,
              !.State[1].Message = IF labState = Pointer(TRUE) THEN "open" ELSE "closed"]

\* main.go:63-66: the writes to the shared document.
StoreState(d, labState, labStateLastChange) ==
    LET opened == [d EXCEPT !.State[1].Open = labState]
    IN IF labStateLastChange # Nil
       THEN [opened EXCEPT !.State[1].LastChange = Deref(labStateLastChange)]
       ELSE opened

\* Mutant of HandlerStore: every store stamps State.LastChange with the
\* current time, which differs from one request to the next.
HandlerStoreNow(r) ==
    /\ pc[r] = "fetched"
    /\ locals[r].labStateError = Nil
    /\ \E now \in {1, 2} :
          spaceApiData' = StoreState(spaceApiData, locals[r].labState, Pointer(now))
    /\ pc' = [pc EXCEPT ![r] = "stored"]
    /\ UNCHANGED <<request, upstream, locals, response>>

HandlerStore(r) ==
    /\ pc[r] = "fetched"
    /\ locals[r].labStateError = Nil
    /\ spaceApiData' = StoreState(spaceApiData, locals[r].labState,
                                  locals[r].labStateLastChange)
    /\ pc' = [pc EXCEPT ![r] = "stored"]
    /\ UNCHANGED <<request, upstream, locals, response>>

\* main.go:68-72: serialise the shared document as it is now and send it.
HandlerWrite(r) ==
    /\ pc[r] = "stored"
    /\ response' = [response EXCEPT ![r] = WriteJSON(Marshal(spaceApiData))]
    /\ pc' = [pc EXCEPT ![r] = "done"]
    /\ UNCHANGED <<spaceApiData, request, upstream, locals>>

\* The exchange is over; the connection is free for the next request.
Close(r) ==
    /\ pc[r] = "done"
    /\ pc' = [pc EXCEPT ![r] = "idle"]
    /\ request' = [request EXCEPT ![r] = NoRequest]
    /\ upstream' = [upstream EXCEPT ![r] = NoUpstream]
    /\ locals' = [locals EXCEPT ![r] = NoResults]
    /\ response' = [response EXCEPT ![r] = NoResponse]
    /\ UNCHANGED spaceApiData

Handler(r) ==
    \/ HandlerFetch(r)
    \/ HandlerError(r)
    \/ HandlerStore(r)
    \/ HandlerWrite(r)

\* Requests are served concurrently, one goroutine each.  Nothing orders the
\* store of one request and the read of State.Open by another request's
\* json.Marshal: the field is one machine word, so the read returns the
\* pointer some store wrote, the latest one in the interleaving.
Next ==
    \E r \in Req :
        \/ Serve(r)
        \/ NotFound(r)
        \/ Handler(r)
        \/ Close(r)

Spec == Init /\ [][Next]_vars

\* A client that sends its next request only after the previous response.
Quiet == \A q \in Req : ~InFlight(q)

NextSeq ==
    \E r \in Req :
        \/ Quiet /\ Serve(r)
        \/ Quiet /\ NotFound(r)
        \/ Handler(r)
        \/ Close(r)

SpecSeq == Init /\ [][NextSeq]_vars

----------------------------------------------------------------------------
(* Vocabulary of the properties *)

Done(r) == pc[r] = "done"

\* The request was handed to handleSpaceApiV15.
Routed(r) == request[r].Path \in Routes

\* The response is a status document.
IsDocument(resp) == resp.Code = StatusOK /\ resp.Body.t = "obj"

Keys(obj) == [i \in 1..Len(obj.m) |-> obj.m[i][1]]

HasKey(obj, key) == \E i \in 1..Len(obj.m) : obj.m[i][1] = key

Get(obj, key) == obj.m[CHOOSE i \in 1..Len(obj.m) : obj.m[i][1] = key][2]

\* state.open of a document.
OpenOf(doc) == Get(Get(doc, "state"), "open")

\* The upstream responses {"status":"open"} and {"status":"closed"}.
FedOpen == Delivered(StatusBody(JStr("open")))

FedClosed == Delivered(StatusBody(JStr("closed")))

\* The upstream responses that arrive and carry neither literal.
FedUnknown == {Delivered(b) : b \in Bodies} \ {FedOpen, FedClosed}

\* The upstream status literal of a delivered body: its status member when
\* that is a string, else empty.
Literal(u) ==
    IF u.body.valid /\ u.body.members # <<>> /\ u.body.members[1][2].t = "str"
    THEN u.body.members[1][2].s
    ELSE ""

\* The error responses an unknown state produces.
UnknownStateBodies == {Text("unknown state: " \o Literal(u) \o "\n") : u \in FedUnknown}

TemplateOpen == Deref(spaceApiData.State).Open

----------------------------------------------------------------------------
(* C1: with requests served concurrently, the state.open of every 200      *)
(* response is the value mapped from that same request's upstream status.  *)
NoCrossRequestLeakage ==
    \A r \in Req :
        Done(r) /\ IsDocument(response[r]) /\ upstream[r] \in {FedOpen, FedClosed}
            => OpenOf(response[r].Body) = JBool(upstream[r] = FedOpen)

(* C2: a request handled with no other request in flight answers "open"    *)
(* with a 200 document whose state.open is true and "closed" with one      *)
(* whose state.open is false; state.lastchange is absent from both.        *)
SequentialMapping ==
    \A r \in Req :
        Done(r) /\ Routed(r) /\ upstream[r] \in {FedOpen, FedClosed}
            => /\ IsDocument(response[r])
               /\ OpenOf(response[r].Body) = JBool(upstream[r] = FedOpen)
               /\ ~HasKey(Get(response[r].Body, "state"), "lastchange")

SequentialMappingWitness ==
    \E r, q \in Req :
        /\ Done(r) /\ Done(q)
        /\ upstream[r] = FedOpen /\ upstream[q] = FedClosed
        /\ IsDocument(response[r]) /\ IsDocument(response[q])

(* C3: an upstream status outside {"open","closed"}, an empty or an        *)
(* unparsable one included, is answered with HTTP 500 carrying the         *)
(* unknown-state error text, and no document.                              *)
UnknownStateFails ==
    \A r \in Req :
        Done(r) /\ Routed(r) /\ upstream[r] \in FedUnknown
            => /\ response[r].Code = StatusInternalServerError
               /\ response[r].Body = Text("unknown state: " \o Literal(upstream[r]) \o "\n")

UnknownStateFailsWitness ==
    \E r, q \in Req :
        /\ Done(r) /\ upstream[r] = Delivered(StatusBody(JStr("maybe")))
        /\ Done(q) /\ upstream[q] = Delivered(NotJSON)
        /\ response[r].Code = StatusInternalServerError
        /\ response[q].Code = StatusInternalServerError

(* C4: a transport failure is answered with HTTP 500 carrying an error     *)
(* other than the unknown-state error, and no document, also when the      *)
(* shared template holds a state from an earlier request.                  *)
TransportFailureFails ==
    \A r \in Req :
        Done(r) /\ Routed(r) /\ upstream[r] \in {DoFailure, ReadFailure}
            => /\ response[r].Code = StatusInternalServerError
               /\ response[r].Body.t = "text"
               /\ response[r].Body \notin UnknownStateBodies

TransportFailureFailsWitness ==
    \E r \in Req :
        /\ Done(r) /\ Routed(r) /\ upstream[r] \in {DoFailure, ReadFailure}
        /\ response[r].Code = StatusInternalServerError
        /\ TemplateOpen # Nil

(* C5: no step of a request whose fetch failed changes the shared          *)
(* template.                                                               *)
FailedLeavesTemplate ==
    [][\A r \in Req :
          (pc'[r] # pc[r] /\ (locals[r].labStateError # Nil \/ locals'[r].labStateError # Nil))
              => spaceApiData' = spaceApiData]_vars

FailedLeavesTemplateWitness ==
    \E r \in Req :
        /\ Done(r) /\ locals[r].labStateError # Nil
        /\ response[r].Code = StatusInternalServerError
        /\ TemplateOpen # Nil

(* C6: a request with a method other than GET receives no 200 document,    *)
(* and GET requests with the same upstream response get the same response  *)
(* on /v14 and on /v15.                                                    *)
OnlyGetServed ==
    /\ \A r \in Req :
          Done(r) /\ request[r].Method # "GET" => ~IsDocument(response[r])
    /\ \A r, q \in Req :
          /\ Done(r) /\ Done(q) /\ Routed(r) /\ Routed(q)
          /\ request[r].Method = "GET" /\ request[q].Method = "GET"
          /\ upstream[r] = upstream[q]
          => response[r] = response[q]

(* C7: two invocations that do not overlap and get identical upstream      *)
(* responses produce identical output, whatever was served before.         *)
Idempotent ==
    \A r, q \in Req :
        Done(r) /\ Done(q) /\ Routed(r) /\ Routed(q) /\ upstream[r] = upstream[q]
            => response[r] = response[q]

IdempotentWitness ==
    \E r, q \in Req :
        /\ r # q /\ Done(r) /\ Done(q)
        /\ upstream[r] = FedOpen /\ upstream[q] = FedOpen
        /\ IsDocument(response[r]) /\ IsDocument(response[q])

(* C8: State.Open and State.LastChange apart, the shared template always   *)
(* equals the template of process start, the order of its lists included.  *)
OnlyStateWritten ==
    [spaceApiData EXCEPT !.State[1].Open = Nil, !.State[1].LastChange = 0]
        = spaceApiDataInit

OnlyStateWrittenWitness ==
    /\ TemplateOpen = Pointer(FALSE)
    /\ \E r \in Req : Done(r) /\ upstream[r] = FedOpen /\ IsDocument(response[r])

(* C9: every emitted document holds its required keys with the template's  *)
(* values and exactly the populated optional keys; it never holds "cam".   *)
SchemaConformance ==
    \A r \in Req :
        IsDocument(response[r]) =>
            LET doc == response[r].Body
            IN /\ Keys(doc) = << "api_compatibility", "space", "logo", "url",
                                 "location", "spacefed", "state", "contact",
                                 "links", "projects" >>
               /\ Get(doc, "space") = JStr("Metalab")
               /\ Get(doc, "api_compatibility") = JArr(<< JStr("14"), JStr("15") >>)
               /\ Keys(Get(doc, "state")) = << "open" >>
               /\ Keys(Get(doc, "location")) =
                      << "address", "lat", "lon", "timezone", "country_code" >>
               /\ Keys(Get(doc, "spacefed")) = << "spacenet", "spacesaml" >>
               /\ Keys(Get(doc, "contact")) = << "phone", "sip", "mastodon" >>
               /\ Keys(Get(doc, "links").a[1]) = << "name", "url" >>
               /\ ~HasKey(doc, "cam")

SchemaConformanceWitness ==
    \E r \in Req : Done(r) /\ IsDocument(response[r]) /\ Len(response[r].Body.m) = 10

(* C10: whenever a handler is about to serialise the template, State.Open  *)
(* is not nil, and no emitted document carries state.open = null.          *)
NeverNullOpen ==
    \A r \in Req :
        /\ pc[r] = "stored" => TemplateOpen # Nil
        /\ IsDocument(response[r]) => OpenOf(response[r].Body) # JNull

NeverNullOpenWitness ==
    \E r, q \in Req :
        /\ Done(r) /\ upstream[r] \in FedUnknown
        /\ response[r].Code = StatusInternalServerError
        /\ pc[q] = "stored"

====
